---- MODULE Spec2Model ----
(***************************************************************************)
(* The Pysic calculator (pysic/calculator.py): the calculator facade, its   *)
(* result cache, and the synchronisation of the Fortran core through the    *)
(* process-wide CoreMirror (Pysic.core).                                    *)
(*                                                                          *)
(* Every public method is one atomic action.  A method body is modelled as  *)
(* a chain of operators on a "world" record w that carries the calculators, *)
(* the caller-owned potential lists, the mirror, the engine, the calls made *)
(* so far (w.trace) and the pending exception (w.err).                      *)
(*                                                                          *)
(* Lengths are in units of 0.5 Angstrom.  A structure holds the per-atom    *)
(* species and tags, one value for the position array, one for the charge   *)
(* array, and the three lattice vectors of the cell.                        *)
(***************************************************************************)
EXTENDS Integers, Sequences, FiniteSets, TLC

VARIABLES calc, lists, core, engine, last

vars == <<calc, lists, core, engine, last>>

(* Python's None, for object-valued attributes *)
None == [none |-> TRUE]

(* a reference to a list or scheme object; a computed result *)
Ref(id) == [ref |-> id]

Value == [value |-> "computed"]

(* a Python list of numbers held where None may be held instead *)
List(s) == [items |-> s]

(* longest potential list add_potential may grow *)
MaxPots == 2

(* neighbor_marginal = 0.5 Angstrom *)
neighbor_marginal == 1

Kinds == {"energy", "forces", "stress", "electronegativities"}

----------------------------------------------------------------------------
(* Inputs *)

Atoms(sym, tags, pos, chg, cell) ==
    [sym |-> sym, tags |-> tags, pos |-> pos, chg |-> chg, cell |-> cell]

(* cells, as their three lattice vectors: a cube of 10 Angstrom, a slab 2    *)
(* Angstrom thick, and a sheared cell whose third vector is 10 Angstrom long *)
(* while the cell is 3 Angstrom thick along it                               *)
ThickCell  == << <<20, 0, 0>>, <<0, 20, 0>>, <<0, 0, 20>> >>
ThinCell   == << <<20, 0, 0>>, <<0, 20, 0>>, <<0, 0, 4>> >>
ShearedCell == << <<20, 0, 0>>, <<0, 20, 0>>, <<16, 10, 6>> >>

(* the structures a caller hands to the calculator *)
Structures ==
    { Atoms(<<"A">>, <<0>>, 0, 0, ThickCell),
      Atoms(<<"A">>, <<0>>, 2, 0, ThickCell),
      Atoms(<<"A", "B">>, <<0, 0>>, 0, 0, ThickCell) }

(* one atom, before and after it has moved further than the skin *)
MovedStructures ==
    { Atoms(<<"A">>, <<0>>, 0, 0, ThickCell),
      Atoms(<<"A">>, <<0>>, 2, 0, ThickCell) }

(* one structure and those that differ from it in one respect *)
ChangedStructures ==
    { Atoms(<<"A">>, <<0>>, 0, 0, ThickCell),
      Atoms(<<"A">>, <<0>>, 2, 0, ThickCell),
      Atoms(<<"A">>, <<0>>, 0, 1, ThickCell),
      Atoms(<<"B">>, <<0>>, 0, 0, ThickCell),
      Atoms(<<"A">>, <<1>>, 0, 0, ThickCell),
      Atoms(<<"A", "B">>, <<0, 0>>, 0, 0, ThickCell) }

(* the interaction models: target tuples by species, tag or index, a cutoff, *)
(* and the bond-order parameters of the coordinator (None: no coordinator)   *)
Potential(p) ==
    CASE p = "p1" -> [cutoff |-> 2, symbols |-> << <<"A", "A">> >>, tags |-> <<>>,
                      indices |-> <<>>, coordinator |-> None]
      [] p = "p2" -> [cutoff |-> 6, symbols |-> << <<"A", "B">> >>, tags |-> <<>>,
                      indices |-> <<>>, coordinator |-> None]
      [] p = "p3" -> [cutoff |-> 2, symbols |-> << <<"A", "A">> >>, tags |-> <<>>,
                      indices |-> <<>>,
                      coordinator |->
                          [bonds |-> << [cutoff |-> 4, symbols |-> << <<"A", "A">> >>],
                                        [cutoff |-> 6, symbols |-> << <<"B", "B">> >>] >>]]

(* the models add_potential is called with *)
AddedPotentials == {"p2"}

(* the Coulomb summation schemes: Ewald, with a real-space cutoff and an     *)
(* optional per-atom scaling vector, of which only the length matters        *)
CoulombSummation(c) ==
    CASE c = "c1" -> [real_cutoff |-> 4, scales |-> None]
      [] c = "c2" -> [real_cutoff |-> 8, scales |-> List(<<1>>)]

Coulombs == {"c1", "c2"}

(* Python list objects: the caller's own lists (L0 is empty, L1 holds p1) and *)
(* the list add_potential makes for a calculator that has none.  The caller  *)
(* always hands set_potentials a list.                                       *)
CallerLists == {"L0", "L1"}
OwnList(c)  == IF c = 1 THEN "own1" ELSE "own2"
ListIds     == CallerLists \cup {"L2", "own1", "own2"}

----------------------------------------------------------------------------
(* Helpers *)

Max(a, b) == IF a > b THEN a ELSE b

Abs(x) == IF x < 0 THEN -x ELSE x

MaxOf(s) == CHOOSE x \in {s[i] : i \in DOMAIN s} : \A j \in DOMAIN s : s[j] <= x

number_of_atoms(s) == Len(s.sym)

(* itertools.permutations(t) collapsed by set() *)
(* the target tuple in the order it was given, and in no other *)
given_order_only(t) == {t}

permutations(t) ==
    { [i \in 1..Len(t) |-> t[f[i]]] :
        f \in { g \in [1..Len(t) -> 1..Len(t)] :
                  \A a, b \in 1..Len(t) : a # b => g[a] # g[b] } }

(* Potential.get_different_symbols / _tags / _indices: every label that      *)
(* appears in some target tuple                                             *)
different(targets) ==
    UNION { {targets[i][j] : j \in 1..Len(targets[i])} : i \in 1..Len(targets) }

----------------------------------------------------------------------------
(* The world record threaded through a method body *)

Me(w) == w.calc[w.self]

SetMe(w, k) == [w EXCEPT !.calc[w.self] = k]

(* no exception is pending *)
Ok(w) == w.err = "ok"

Raise(w, e) == [w EXCEPT !.err = e]

(* any other event worth recording: mirror setters, hooks, method entry and  *)
(* return, and "EngineError" where a routine of the core raised              *)
Note(w, call) ==
    IF ~Ok(w) THEN w
    ELSE [w EXCEPT !.trace = Append(@, [call |-> call, arg |-> 0])]

(* a call on the Fortran core (pf.pysic_interface.<call>): it is recorded    *)
(* when it returns; the calls in w.fault raise instead.  Nothing runs while  *)
(* an exception is pending.                                                  *)
Push(w, call, arg) ==
    IF ~Ok(w) THEN w
    ELSE IF call \in w.fault THEN Raise(Note(w, "EngineError"), "EngineError")
    ELSE [w EXCEPT !.trace = Append(@, [call |-> call, arg |-> arg])]

(* a run of calls on the Fortran core, all of the same routine *)
PushAll(w, calls) ==
    IF ~Ok(w) \/ calls = <<>> THEN w
    ELSE IF calls[1].call \in w.fault
    THEN Raise(Note(w, "EngineError"), "EngineError")
    ELSE [w EXCEPT !.trace = @ \o calls]

(* a run of calls inside try: ... except: pass; when the routine raises, the *)
(* rest of the run is skipped and the exception is dropped                   *)
TryAll(w, calls) ==
    IF ~Ok(w) \/ calls = <<>> THEN w
    ELSE IF calls[1].call \in w.fault THEN Note(w, "EngineError")
    ELSE [w EXCEPT !.trace = @ \o calls]

(* an assignment, which is skipped while an exception is pending *)
Then(w, after) == IF Ok(w) THEN after ELSE w

(* statement sequencing: a pending exception skips the rest of the body *)
Bind(w, F(_)) == IF w.err # "ok" THEN w ELSE F(w)

----------------------------------------------------------------------------
(* CoreMirror (pysic.core): the record of what the Fortran core holds *)

NewCoreMirror ==
    [structure |-> None, potentials |-> None, coulomb |-> None,
     neighbor_list |-> None, potential_lists_ready |-> FALSE, mpi_ready |-> FALSE]

atoms_ready(m, atoms) ==
    /\ m.structure # None
    /\ number_of_atoms(m.structure) = number_of_atoms(atoms)
    /\ m.structure.pos = atoms.pos
    /\ m.structure.sym = atoms.sym
    /\ m.structure.tags = atoms.tags

charges_ready(m, atoms) ==
    /\ m.structure # None
    /\ m.structure.chg = atoms.chg

cell_ready(m, atoms) ==
    /\ m.structure # None
    /\ m.structure.cell = atoms.cell

potentials_ready(m, pots) ==
    /\ m.potentials # None
    /\ m.potentials = pots

coulomb_summation_ready(m, coulomb) ==
    /\ m.coulomb # None
    /\ m.coulomb = coulomb

neighbor_lists_ready(m, nl) ==
    /\ m.neighbor_list # None
    /\ m.neighbor_list = nl

core_set_atoms(w) ==
    Then(w, Note([w EXCEPT !.core.structure = Me(w).structure], "core.set_atoms"))

core_set_atomic_positions(w) ==
    Then(w, Note([w EXCEPT !.core.structure.pos = Me(w).structure.pos],
                 "core.set_atomic_positions"))

core_set_charges(w) ==
    Then(w, Note([w EXCEPT !.core.structure.chg = Me(w).structure.chg], "core.set_charges"))

core_set_cell(w) ==
    Then(w, Note([w EXCEPT !.core.structure.cell = Me(w).structure.cell], "core.set_cell"))

core_set_potentials(w) ==
    Then(w, Note([w EXCEPT !.core.potentials = Me(w).potentials], "core.set_potentials"))

core_set_coulomb(w) ==
    Then(w, Note([w EXCEPT !.core.coulomb = Me(w).coulomb], "core.set_coulomb"))

(* set_neighbor_lists(None) forgets the lists; with a list it records them *)
core_set_neighbor_lists(w, nl) ==
    Then(w, Note([w EXCEPT !.core.neighbor_list = nl],
                 IF nl = None THEN "core.set_neighbor_lists(None)"
                 ELSE "core.set_neighbor_lists"))

----------------------------------------------------------------------------
(* Pysic: construction and the cutoff bookkeeping *)

(* Pysic.__init__ with no structure, potentials, relaxation or Coulomb scheme *)
NewPysic(full_initialization) ==
    [structure |-> None, potentials |-> None, coulomb |-> None,
     charge_relaxation |-> None, neighbor_list |-> None,
     neighbor_lists_waiting |-> FALSE, saved_cutoffs |-> None,
     forces |-> None, stress |-> None, energy |-> None,
     electronegativities |-> None,
     force_core_initialization |-> full_initialization]

(* one model's contribution to an atom's cutoff, after max_cut so far *)
potential_cut(pot, symbol, tag, index, max_cut) ==
    LET active == \/ symbol \in different(pot.symbols)
                  \/ tag \in different(pot.tags)
                  \/ index \in different(pot.indices)
        own    == IF active /\ pot.cutoff > max_cut THEN pot.cutoff ELSE max_cut
        bonds  == IF pot.coordinator = None THEN <<>> ELSE pot.coordinator.bonds
        BondCut[n \in 0..Len(bonds)] ==
            IF n = 0 THEN own
            ELSE IF /\ symbol \in different(bonds[n].symbols)
                    /\ bonds[n].cutoff > BondCut[n - 1]
                 THEN bonds[n].cutoff
                 ELSE BondCut[n - 1]
    IN  BondCut[Len(bonds)]

(* a resolver that returns one zero whatever the number of atoms *)
get_individual_cutoffs_of_one_atom(k, heap, scaler) ==
    IF k.structure = None THEN None ELSE List(<<0>>)

get_individual_cutoffs(k, heap, scaler) ==
    IF k.structure = None THEN None
    ELSE LET n    == number_of_atoms(k.structure)
             rcut == IF k.coulomb = None THEN 0
                     ELSE CoulombSummation(k.coulomb.ref).real_cutoff
         IN  IF k.potentials = None
             THEN List([i \in 1..n |-> rcut])
             ELSE LET pots == heap[k.potentials.ref]
                      Cut(i) ==
                          LET Fold[m \in 0..Len(pots)] ==
                                  IF m = 0 THEN rcut
                                  ELSE potential_cut(Potential(pots[m]),
                                                     k.structure.sym[i],
                                                     k.structure.tags[i],
                                                     i - 1, Fold[m - 1])
                          IN  Fold[Len(pots)]
                  IN  List([i \in 1..n |-> Cut(i) * scaler])

(* a check that takes any change of a cutoff for an expansion *)
neighbor_lists_changed(k, cutoffs) ==
    IF k.saved_cutoffs = None THEN TRUE
    ELSE IF cutoffs = None THEN TRUE
    ELSE IF Len(k.saved_cutoffs.items) # Len(cutoffs.items) THEN TRUE
    ELSE \E i \in 1..Len(cutoffs.items) : k.saved_cutoffs.items[i] # cutoffs.items[i]

neighbor_lists_expanded(k, cutoffs) ==
    IF k.saved_cutoffs = None THEN TRUE
    ELSE IF cutoffs = None THEN TRUE
    ELSE IF Len(k.saved_cutoffs.items) # Len(cutoffs.items) THEN TRUE
    ELSE \E i \in 1..Len(cutoffs.items) : k.saved_cutoffs.items[i] < cutoffs.items[i]

set_cutoffs(k, cutoffs) == [k EXCEPT !.saved_cutoffs = cutoffs]

(* a reset that leaves the stress behind *)
reset_results_keeping_stress(k) ==
    [k EXCEPT !.forces = None, !.energy = None, !.electronegativities = None]

(* self.forces = self.energy = self.stress = self.electronegativities = None *)
reset_results(k) ==
    [k EXCEPT !.forces = None, !.energy = None, !.stress = None,
              !.electronegativities = None]

----------------------------------------------------------------------------
(* Neighbor lists: FastNeighborList and the ASE NeighborList *)

(* NeighborList.__init__: nothing is built yet (nupdates = 0) *)
NewNeighborList(fast, cutoffs, skin) ==
    [fast |-> fast, cutoffs |-> cutoffs, skin |-> skin, built |-> FALSE,
     positions |-> <<>>, cell |-> <<>>]

(* a comparison of structures that is blind to tags *)
structure_ne_ignoring_tags(a, b) ==
    \/ number_of_atoms(a) # number_of_atoms(b)
    \/ a.pos # b.pos
    \/ a.sym # b.sym
    \/ a.cell # b.cell

(* Atoms.__ne__: the structures differ in atom count, positions, species,    *)
(* tags or cell                                                             *)
structure_ne(a, b) ==
    \/ number_of_atoms(a) # number_of_atoms(b)
    \/ a.pos # b.pos
    \/ a.sym # b.sym
    \/ a.tags # b.tags
    \/ a.cell # b.cell

cross(u, v) ==
    <<u[2] * v[3] - u[3] * v[2], u[3] * v[1] - u[1] * v[3], u[1] * v[2] - u[2] * v[1]>>

dot(u, v) == u[1] * v[1] + u[2] * v[2] + u[3] * v[3]

(* a test of the length of the lattice vector in place of the thickness *)
length_below(cell, i, max_cut) ==
    dot(cell[i + 1], cell[i + 1]) < max_cut * max_cut

(* length < max_cut, where length = |vec . normal| / sqrt(normal . normal)   *)
(* is the thickness of the cell along axis i (counted from 0): both sides    *)
(* are squared, which keeps the comparison in whole numbers                  *)
thickness_below(cell, i, max_cut) ==
    LET vec    == cell[i + 1]
        normal == cross(cell[((i + 1) % 3) + 1], cell[((i + 2) % 3) + 1])
    IN  dot(vec, normal) * dot(vec, normal) < max_cut * max_cut * dot(normal, normal)

(* lists made without saving the cutoffs they were made with *)
create_neighbor_lists_unsaved(w, cutoffs, marginal) ==
    LET k        == Me(w)
        cuts     == IF cutoffs = None
                    THEN get_individual_cutoffs(k, w.lists, 1) ELSE cutoffs
        max_cut  == MaxOf(cuts.items)
        fastlist == \A i \in 0..2 : ~thickness_below(k.structure.cell, i, max_cut)
    IN  Note(SetMe(w, [k EXCEPT !.neighbor_list = NewNeighborList(fastlist, cuts, marginal),
                                !.neighbor_lists_waiting = TRUE]),
             "create_neighbor_lists")

create_neighbor_lists(w, cutoffs, marginal) ==
    LET k        == Me(w)
        cuts     == IF cutoffs = None
                    THEN get_individual_cutoffs(k, w.lists, 1) ELSE cutoffs
        max_cut  == MaxOf(cuts.items)
        fastlist == \A i \in 0..2 : ~thickness_below(k.structure.cell, i, max_cut)
    IN  Note(SetMe(w, set_cutoffs(
            [k EXCEPT !.neighbor_list = NewNeighborList(fastlist, cuts, marginal),
                      !.neighbor_lists_waiting = TRUE], cuts)),
             "create_neighbor_lists")

(* FastNeighborList.build(atoms) *)
FastNeighborList_build(w, atoms) ==
    LET k     == Me(w)
        begun == [k.neighbor_list EXCEPT !.positions = <<atoms.pos>>,
                                         !.cell = atoms.cell]
        built == [begun EXCEPT !.built = TRUE]
    IN  IF ~atoms_ready(w.core, atoms)
        THEN Raise(w, "MissingAtomsError")
        ELSE IF structure_ne(w.core.structure, atoms)
        THEN Raise(w, "MissingAtomsError")
        ELSE LET g == Push(SetMe(w, [k EXCEPT !.neighbor_list = begun]),
                           "generate_neighbor_lists", 0)
             IN  Then(g, SetMe(g, [k EXCEPT !.neighbor_list = built]))

(* FastNeighborList.build / NeighborList.build for the held structure *)
NeighborList_build(w) ==
    LET k     == Me(w)
        atoms == k.structure
        built == [k.neighbor_list EXCEPT !.positions = <<atoms.pos>>,
                                         !.cell = atoms.cell, !.built = TRUE]
    IN  IF k.neighbor_list.fast
        THEN FastNeighborList_build(w, atoms)
        ELSE SetMe(w, [k EXCEPT !.neighbor_list = built])

(* NeighborList.update: rebuild on the first call, on a changed cell, or     *)
(* when some atom moved further than the skin since the last build           *)
NeighborList_update(w) ==
    LET k  == Me(w)
        nl == k.neighbor_list
    IN  IF nl = None THEN Raise(w, "AttributeError")
        ELSE IF ~nl.built THEN NeighborList_build(w)
        ELSE IF nl.cell # k.structure.cell THEN NeighborList_build(w)
        ELSE IF Len(nl.cutoffs.items) # number_of_atoms(k.structure)
        THEN Raise(w, "ValueError")
        ELSE IF Abs(nl.positions[1] - k.structure.pos) > nl.skin
        THEN NeighborList_build(w)
        ELSE w

----------------------------------------------------------------------------
(* Pysic: pushes to the Fortran core *)

(* the ASE list is handed to the core atom by atom; the fast list is not *)
pass_neighbor_lists(w) ==
    IF Me(w).neighbor_list.fast THEN w
    ELSE PushAll(w, [i \in 1..number_of_atoms(Me(w).structure) |->
                        [call |-> "create_neighbor_list", arg |-> i]])

record_neighbor_lists(w) == core_set_neighbor_lists(w, Me(w).neighbor_list)

update_core_neighbor_lists(w) ==
    LET k       == Me(w)
        cutoffs == get_individual_cutoffs(k, w.lists, 1)
        w1      == IF ~k.neighbor_lists_waiting
                   THEN create_neighbor_lists(w, cutoffs, neighbor_marginal)
                   ELSE w
    IN  IF ~atoms_ready(w.core, k.structure)
        THEN Raise(w, "MissingAtomsError")
        ELSE Bind(Bind(NeighborList_update(w1), pass_neighbor_lists),
                  record_neighbor_lists)

update_core_supercell(w) ==
    core_set_neighbor_lists(core_set_cell(Push(w, "create_cell", 0)), None)

update_core_charges(w) ==
    core_set_charges(Push(SetMe(w, reset_results(Me(w))), "update_atom_charges", 0))

(* a coordinate update that leaves the neighbor lists alone *)
update_core_coordinates_alone(w) ==
    IF number_of_atoms(Me(w).structure) # w.engine.n_atoms
    THEN Raise(w, "LockedCoreError")
    ELSE core_set_atomic_positions(
             Push(SetMe(w, reset_results(Me(w))), "update_atom_coordinates", 0))

(* a coordinate update that forgets the results before it looks at the      *)
(* number of atoms                                                           *)
update_core_coordinates_unlocked(w) ==
    Raise(SetMe(w, reset_results(Me(w))), "LockedCoreError")

update_core_coordinates(w) ==
    IF number_of_atoms(Me(w).structure) # w.engine.n_atoms
    THEN Raise(w, "LockedCoreError")
    ELSE LET w1 == core_set_atomic_positions(
                       Push(SetMe(w, reset_results(Me(w))), "update_atom_coordinates", 0))
             w2 == IF ~Me(w1).neighbor_lists_waiting
                   THEN create_neighbor_lists(
                            w1, get_individual_cutoffs(Me(w1), w1.lists, 1),
                            neighbor_marginal)
                   ELSE w1
         IN  Then(w1, update_core_neighbor_lists(w2))

update_core_potential_lists(w) ==
    IF ~atoms_ready(w.core, Me(w).structure)
    THEN Raise(w, "MissingAtomsError")
    ELSE LET p == Push(Push(w, "create_potential_list", 0),
                       "create_bond_order_factor_list", 0)
         IN  Then(p, [p EXCEPT !.core.potential_lists_ready = TRUE])

(* number of add_potential calls one model causes: one per distinct          *)
(* permutation of each of its target tuples                                  *)
n_targets(pot) ==
    LET Count(targets) ==
            LET Sum[n \in 0..Len(targets)] ==
                    IF n = 0 THEN 0
                    ELSE Sum[n - 1] + Cardinality(permutations(targets[n]))
            IN  Sum[Len(targets)]
    IN  Count(pot.symbols) + Count(pot.tags) + Count(pot.indices)

(* number of add_bond_order_factor calls the coordinator of a model causes *)
n_bond_targets(pot) ==
    IF pot.coordinator = None THEN 0
    ELSE LET bonds == pot.coordinator.bonds
             Sum[n \in 0..Len(bonds)] ==
                 IF n = 0 THEN 0
                 ELSE Sum[n - 1] + n_targets([symbols |-> bonds[n].symbols,
                                              tags |-> <<>>, indices |-> <<>>])
         IN  Sum[Len(bonds)]

Calls(call, arg, n) == [i \in 1..n |-> [call |-> call, arg |-> arg]]

update_core_potentials(w) ==
    LET w0   == [w EXCEPT !.core.potential_lists_ready = FALSE]
        none == Push(Push(w0, "allocate_potentials", 0), "allocate_bond_order_factors", 0)
    IN  IF Me(w).potentials = None THEN none
        ELSE LET pots == w.lists[Me(w).potentials.ref]
                 Total[n \in 0..Len(pots)] ==
                     IF n = 0 THEN 0 ELSE Total[n - 1] + n_targets(Potential(pots[n]))
                 Bonds[n \in 0..Len(pots)] ==
                     IF n = 0 THEN 0
                     ELSE Bonds[n - 1] + n_bond_targets(Potential(pots[n]))
                 Adds[n \in 0..Len(pots)] ==
                     IF n = 0 THEN <<>>
                     ELSE Adds[n - 1] \o
                          Calls("add_potential", n - 1, n_targets(Potential(pots[n])))
                 AddBonds[n \in 0..Len(pots)] ==
                     IF n = 0 THEN <<>>
                     ELSE AddBonds[n - 1] \o
                          Calls("add_bond_order_factor", n - 1,
                                n_bond_targets(Potential(pots[n])))
                 w1 == Push(w0, "allocate_potentials", Total[Len(pots)])
                 w2 == TryAll(w1, Adds[Len(pots)])
                 w3 == Push(w2, "allocate_bond_order_factors", Bonds[Len(pots)])
                 w4 == TryAll(w3, AddBonds[Len(pots)])
                 w5 == Push(w4, "allocate_bond_order_storage", Len(pots))
             IN  IF Len(pots) = 0 THEN none
                 ELSE core_set_potentials(w5)

(* a Coulomb update that sets the parameters before it looks at the scaling *)
(* vector                                                                   *)
update_core_coulomb_checked_late(w) ==
    IF Me(w).coulomb = None THEN w
    ELSE LET scales == CoulombSummation(Me(w).coulomb.ref).scales
             w1     == core_set_coulomb(Push(w, "set_ewald_parameters", 0))
         IN  IF scales # None /\ Len(scales.items) # number_of_atoms(Me(w).structure)
             THEN Raise(w1, "InvalidParametersError")
             ELSE w1

update_core_coulomb(w) ==
    IF Me(w).coulomb = None THEN w
    ELSE LET scales == CoulombSummation(Me(w).coulomb.ref).scales
         IN  IF scales # None /\ Len(scales.items) # number_of_atoms(Me(w).structure)
             THEN Raise(w, "InvalidParametersError")
             ELSE core_set_coulomb(Push(w, "set_ewald_parameters", 0))

initialize_fortran_core(w) ==
    LET n  == number_of_atoms(Me(w).structure)
        a  == Push(w, "create_atoms", n)
        w1 == core_set_atoms(Then(a, [a EXCEPT !.engine.n_atoms = n]))
        d  == Push(w1, "distribute_mpi", n)
        w2 == Then(d, [d EXCEPT !.core.mpi_ready = TRUE])
    IN  Bind(Bind(Bind(Bind(update_core_supercell(w2),
                            update_core_potentials),
                       update_core_neighbor_lists),
                  update_core_potential_lists),
             update_core_coulomb)

----------------------------------------------------------------------------
(* Pysic.set_core *)

(* the decision without the forced mode *)
do_full_init_unforced(w) ==
    \/ ~w.core.mpi_ready
    \/ w.core.structure = None
    \/ number_of_atoms(Me(w).structure) # number_of_atoms(w.core.structure)
    \/ number_of_atoms(Me(w).structure) # w.engine.n_atoms

do_full_init(w) ==
    \/ Me(w).force_core_initialization
    \/ ~w.core.mpi_ready
    \/ w.core.structure = None
    \/ number_of_atoms(Me(w).structure) # number_of_atoms(w.core.structure)
    \/ number_of_atoms(Me(w).structure) # w.engine.n_atoms

check_cell(w) ==
    IF ~cell_ready(w.core, Me(w).structure) THEN update_core_supercell(w) ELSE w

check_atoms(w) ==
    IF ~atoms_ready(w.core, Me(w).structure) THEN update_core_coordinates(w) ELSE w

check_charges(w) ==
    IF ~charges_ready(w.core, Me(w).structure) THEN update_core_charges(w) ELSE w

check_potentials(w) ==
    IF ~potentials_ready(w.core, Me(w).potentials) THEN update_core_potentials(w) ELSE w

check_coulomb(w) ==
    IF Me(w).coulomb # None /\ ~coulomb_summation_ready(w.core, Me(w).coulomb)
    THEN update_core_coulomb(w) ELSE w

(* a synchronization that never looks at the potential lists *)
check_potential_lists_skipped(w) == w

check_potential_lists(w) ==
    IF ~w.core.potential_lists_ready THEN update_core_potential_lists(w) ELSE w

check_neighbor_lists(w) ==
    LET w1 == IF ~Me(w).neighbor_lists_waiting
              THEN create_neighbor_lists(
                       w, get_individual_cutoffs(Me(w), w.lists, 1), neighbor_marginal)
              ELSE w
    IN  IF ~neighbor_lists_ready(w1.core, Me(w1).neighbor_list)
        THEN update_core_neighbor_lists(w1) ELSE w1

set_core_return(w) == Note(w, "set_core.return")

set_core(w) ==
    IF Me(w).structure = None THEN Raise(w, "AttributeError")
    ELSE LET w0 == Note(w, "set_core")
         IN  Bind(IF do_full_init(w0)
                  THEN initialize_fortran_core(w0)
                  ELSE Bind(Bind(Bind(Bind(Bind(Bind(check_cell(w0),
                                                     check_atoms),
                                                check_charges),
                                           check_potentials),
                                      check_coulomb),
                                 check_potential_lists),
                            check_neighbor_lists),
                  set_core_return)

----------------------------------------------------------------------------
(* Pysic: the calculations *)

(* self.charge_relaxation.charge_relaxation(), when a relaxation is linked *)
relax_charges(w) ==
    IF Me(w).charge_relaxation # None THEN Note(w, "charge_relaxation") ELSE w

core_calculate_forces(w) ==
    LET p == Push(w, "calculate_forces", w.engine.n_atoms)
    IN  Then(p, SetMe(p, [Me(w) EXCEPT !.forces = Value, !.stress = Value]))

core_calculate_energy(w) ==
    LET p == Push(w, "calculate_energy", w.engine.n_atoms)
    IN  Then(p, SetMe(p, [Me(w) EXCEPT !.energy = Value]))

core_calculate_electronegativities(w) ==
    LET p == Push(w, "calculate_electronegativities", w.engine.n_atoms)
    IN  Then(p, SetMe(p, [Me(w) EXCEPT !.electronegativities = Value]))

(* electronegativities computed on whatever the core holds *)
calculate_electronegativities_unsynchronised(w) ==
    core_calculate_electronegativities(w)

calculate_electronegativities(w) ==
    Bind(set_core(w), core_calculate_electronegativities)

calculate_forces(w) ==
    Bind(Bind(set_core(w), relax_charges), core_calculate_forces)

calculate_energy(w) ==
    Bind(Bind(set_core(w), relax_charges), core_calculate_energy)

calculate_stress(w) ==
    Bind(Bind(relax_charges(w), set_core), core_calculate_forces)

calculation_required(k, m, quantities) ==
    \/ \E mark \in quantities : k[mark] = None
    \/ ~atoms_ready(m, k.structure)
    \/ ~charges_ready(m, k.structure)
    \/ ~cell_ready(m, k.structure)
    \/ ~potentials_ready(m, k.potentials)

----------------------------------------------------------------------------
(* Pysic: the caller's interface *)

set_atoms(w, atoms) ==
    LET k == Me(w)
    IN  IF atoms = None THEN w
        ELSE IF \/ k.structure = None
                \/ structure_ne(k.structure, atoms)
                \/ k.structure.chg # atoms.chg
        THEN LET relist == \/ k.structure = None
                           \/ k.structure.sym # atoms.sym
                           \/ k.structure.tags # atoms.tags
                           \/ ~potentials_ready(w.core, k.potentials)
                 k1 == [reset_results(k) EXCEPT
                          !.neighbor_lists_waiting = IF relist THEN FALSE ELSE @,
                          !.structure = atoms]
             IN  [SetMe(w, k1) EXCEPT
                    !.core.potential_lists_ready = IF relist THEN FALSE ELSE @]
        ELSE w

set_potentials(w, potentials) ==
    IF potentials = None THEN w
    ELSE LET k0 == reset_results(Me(w))
             new_cutoffs == get_individual_cutoffs(k0, w.lists, 1)
             k1 == [k0 EXCEPT !.neighbor_lists_waiting =
                                 ~neighbor_lists_expanded(k0, new_cutoffs)]
         IN  SetMe(w, [k1 EXCEPT !.potentials = potentials])

add_potential(w, potential) ==
    LET id == IF Me(w).potentials = None THEN OwnList(w.self)
              ELSE Me(w).potentials.ref
        w1 == [w EXCEPT !.lists[id] = IF Me(w).potentials = None
                                      THEN <<potential>>
                                      ELSE Append(@, potential)]
        k1 == reset_results([Me(w) EXCEPT !.potentials = Ref(id)])
        new_cutoffs == get_individual_cutoffs(k1, w1.lists, 1)
    IN  SetMe(w1, [k1 EXCEPT !.neighbor_lists_waiting =
                               ~neighbor_lists_expanded(k1, new_cutoffs)])

set_coulomb_summation(w, coulomb) ==
    LET k1 == [Me(w) EXCEPT !.coulomb = coulomb]
        new_cutoffs == get_individual_cutoffs(k1, w.lists, 1)
    IN  SetMe(w, [k1 EXCEPT !.neighbor_lists_waiting =
                              ~neighbor_lists_expanded(k1, new_cutoffs)])

set_charge_relaxation(w, charge_relaxation) ==
    SetMe(w, [Me(w) EXCEPT !.charge_relaxation = charge_relaxation])

(* a result is asked for while the calculator holds no structure *)
no_structure(w) == Me(w).structure = None

get_electronegativities(w, atoms) ==
    LET w1 == set_atoms(w, atoms)
    IN  IF no_structure(w1) THEN Raise(w1, "AttributeError")
        ELSE IF calculation_required(Me(w1), w1.core, {"electronegativities"})
        THEN calculate_electronegativities(w1) ELSE w1

get_forces(w, atoms) ==
    LET w1 == set_atoms(w, atoms)
    IN  IF no_structure(w1) THEN Raise(w1, "AttributeError")
        ELSE IF calculation_required(Me(w1), w1.core, {"forces"})
        THEN calculate_forces(w1) ELSE w1

get_potential_energy(w, atoms) ==
    LET w1 == set_atoms(w, atoms)
    IN  IF no_structure(w1) THEN Raise(w1, "AttributeError")
        ELSE IF calculation_required(Me(w1), w1.core, {"energy"})
        THEN calculate_energy(w1) ELSE w1

get_stress(w, atoms) ==
    LET w1 == set_atoms(w, atoms)
    IN  IF no_structure(w1) THEN Raise(w1, "AttributeError")
        ELSE IF calculation_required(Me(w1), w1.core, {"stress"})
        THEN calculate_stress(w1) ELSE w1

----------------------------------------------------------------------------
(* The state machine *)

Start(c) ==
    [calc |-> calc, lists |-> lists, core |-> core, engine |-> engine,
     trace |-> <<>>, err |-> "ok", self |-> c, fault |-> {}]

(* the state after the method has run, and the record of the call: what was  *)
(* called, what it returned or raised, the calls it made, and which results  *)
(* the calculator held when it was called                                    *)
Commit(w, op, arg, ret) ==
    /\ calc' = w.calc
    /\ lists' = w.lists
    /\ core' = w.core
    /\ engine' = w.engine
    /\ last' = [op |-> op, self |-> w.self, arg |-> arg, ret |-> ret,
                trace |-> w.trace, err |-> w.err,
                known |-> {q \in Kinds : calc[w.self][q] # None}]

Init ==
    /\ \E full_initialization \in BOOLEAN :
         calc = [c \in {1} |-> NewPysic(full_initialization)]
    /\ lists = [id \in ListIds |-> IF id = "L1" THEN <<"p1">> ELSE <<>>]
    /\ core = NewCoreMirror
    /\ engine = [n_atoms |-> 0]
    /\ last = [op |-> "__init__", self |-> 1, arg |-> None, ret |-> None,
               trace |-> <<>>, err |-> "ok", known |-> {}]

SetAtoms(c, given) ==
    \E atoms \in given :
        Commit(set_atoms(Start(c), atoms), "set_atoms", atoms, None)

SetPotentials(c, given) ==
    \E potentials \in given :
        Commit(set_potentials(Start(c), potentials), "set_potentials", potentials, None)

AddPotential(c, given) ==
    \E potential \in given :
        /\ calc[c].potentials # None => Len(lists[calc[c].potentials.ref]) < MaxPots
        /\ Commit(add_potential(Start(c), potential), "add_potential",
                  [pot |-> potential], None)

SetCoulombSummation(c, given) ==
    \E coulomb \in given :
        Commit(set_coulomb_summation(Start(c), coulomb), "set_coulomb_summation",
               coulomb, None)

SetChargeRelaxation(c) ==
    \E charge_relaxation \in {None, [relaxation |-> "dynamic"]} :
        Commit(set_charge_relaxation(Start(c), charge_relaxation),
               "set_charge_relaxation", charge_relaxation, None)

GetElectronegativities(c, given) ==
    \E atoms \in given :
        LET w == get_electronegativities(Start(c), atoms)
        IN  Commit(w, "get_electronegativities", atoms, Me(w).electronegativities)

GetForces(c, given) ==
    \E atoms \in given :
        LET w == get_forces(Start(c), atoms)
        IN  Commit(w, "get_forces", atoms, Me(w).forces)

GetPotentialEnergy(c, given) ==
    \E atoms \in given :
        LET w == get_potential_energy(Start(c), atoms)
        IN  Commit(w, "get_potential_energy", atoms, Me(w).energy)

GetStress(c, given) ==
    \E atoms \in given :
        LET w == get_stress(Start(c), atoms)
        IN  Commit(w, "get_stress", atoms, Me(w).stress)

SetCore(c) ==
    Commit(set_core(Start(c)), "set_core", None, None)

(* set_core while one routine of the Fortran core raises *)
SetCoreFailing(c, given) ==
    \E routine \in given :
        Commit(set_core([Start(c) EXCEPT !.fault = {routine}]), "set_core",
               [fault |-> routine], None)

(* the calculators a process may hold; DOMAIN calc are those constructed *)
Calcs == {1, 2}

Live(c) == c \in DOMAIN calc

(* Synchronisation: one calculator, in either initialization mode, whose     *)
(* structure, potentials and Coulomb scheme change between set_core calls    *)
Next ==
    \/ \E c \in Calcs : Live(c) /\ SetAtoms(c, Structures)
    \/ \E c \in Calcs : Live(c)
          /\ SetPotentials(c, {None} \cup {Ref(id) : id \in CallerLists})
    \/ \E c \in Calcs : Live(c) /\ SetCoulombSummation(c, {None, Ref("c1")})
    \/ \E c \in Calcs : Live(c) /\ GetPotentialEnergy(c, {None})
    \/ \E c \in Calcs : Live(c) /\ SetCore(c)

Spec == Init /\ [][Next]_vars

(* Requests: one calculator in the default mode, with or without a charge    *)
(* relaxation, asked for all four results                                    *)
InitDefault == Init /\ ~calc[1].force_core_initialization

NextRequests ==
    \/ \E c \in Calcs : Live(c) /\ SetAtoms(c, MovedStructures)
    \/ \E c \in Calcs : Live(c) /\ SetPotentials(c, {Ref("L0"), Ref("L1")})
    \/ \E c \in Calcs : Live(c) /\ SetChargeRelaxation(c)
    \/ \E c \in Calcs : Live(c) /\ GetElectronegativities(c, {None})
    \/ \E c \in Calcs : Live(c) /\ GetForces(c, {None})
    \/ \E c \in Calcs : Live(c) /\ GetPotentialEnergy(c, {None})
    \/ \E c \in Calcs : Live(c) /\ GetStress(c, {None})

SpecRequests == InitDefault /\ [][NextRequests]_vars

(* Structures: one calculator handed structures that differ from one another *)
(* in positions, charges, species, tags or atom count                        *)
NextAtoms ==
    \/ \E c \in Calcs : Live(c) /\ SetAtoms(c, ChangedStructures \cup {None})
    \/ \E c \in Calcs : Live(c) /\ SetPotentials(c, {Ref("L1")})
    \/ \E c \in Calcs : Live(c) /\ GetForces(c, ChangedStructures \cup {None})
    \/ \E c \in Calcs : Live(c) /\ GetPotentialEnergy(c, {None})

SpecAtoms == InitDefault /\ [][NextAtoms]_vars

(* Potentials: one calculator whose potential list is replaced and extended  *)
NextPotentials ==
    \/ \E c \in Calcs : Live(c) /\ SetAtoms(c, MovedStructures)
    \/ \E c \in Calcs : Live(c)
          /\ SetPotentials(c, {None} \cup {Ref(id) : id \in CallerLists})
    \/ \E c \in Calcs : Live(c) /\ AddPotential(c, AddedPotentials)
    \/ \E c \in Calcs : Live(c) /\ GetElectronegativities(c, {None})
    \/ \E c \in Calcs : Live(c) /\ GetForces(c, {None})
    \/ \E c \in Calcs : Live(c) /\ GetPotentialEnergy(c, {None})

SpecPotentials == InitDefault /\ [][NextPotentials]_vars

(* Sharing: two calculators in the default mode take turns on the one        *)
(* process-wide mirror and core, and a routine of the core may raise         *)
SharedLists ==
    [id \in ListIds |-> IF id = "L1" THEN <<"p1">>
                        ELSE IF id = "L2" THEN <<"p2">> ELSE <<>>]

(* Pysic(atoms, potentials): the constructor hands its arguments to the      *)
(* setters                                                                   *)
Constructed(c, atoms, potentials) ==
    LET w0 == [calc |-> [d \in {c} |-> NewPysic(FALSE)], lists |-> SharedLists,
               core |-> NewCoreMirror, engine |-> [n_atoms |-> 0],
               trace |-> <<>>, err |-> "ok", self |-> c, fault |-> {}]
    IN  Me(set_coulomb_summation(
               set_charge_relaxation(
                   set_potentials(set_atoms(w0, atoms), potentials), None), None))

InitShared ==
    /\ calc = [c \in Calcs |->
                 Constructed(c, Atoms(<<"A">>, <<0>>, 0, 0, ThickCell),
                             IF c = 1 THEN Ref("L1") ELSE Ref("L2"))]
    /\ lists = SharedLists
    /\ core = NewCoreMirror
    /\ engine = [n_atoms |-> 0]
    /\ last = [op |-> "__init__", self |-> 1, arg |-> None, ret |-> None,
               trace |-> <<>>, err |-> "ok", known |-> {}]

EngineRoutines ==
    {"create_atoms", "distribute_mpi", "create_cell", "update_atom_coordinates",
     "add_potential", "generate_neighbor_lists"}

NextShared ==
    \/ \E c \in Calcs : Live(c) /\ SetAtoms(c, MovedStructures)
    \/ \E c \in Calcs : Live(c) /\ SetCore(c)
    \/ \E c \in Calcs : Live(c) /\ SetCoreFailing(c, EngineRoutines)

SpecShared == InitShared /\ [][NextShared]_vars

----------------------------------------------------------------------------
(* What a recorded call did *)

ComputeCalls == {"calculate_forces", "calculate_energy", "calculate_electronegativities"}

PushCalls ==
    {"create_atoms", "distribute_mpi", "create_cell", "update_atom_coordinates",
     "update_atom_charges", "allocate_potentials", "add_potential",
     "allocate_bond_order_factors", "add_bond_order_factor",
     "allocate_bond_order_storage", "create_potential_list",
     "create_bond_order_factor_list", "generate_neighbor_lists",
     "create_neighbor_list", "set_ewald_parameters"}

GetCalls == {"get_forces", "get_potential_energy", "get_stress", "get_electronegativities"}

Made(tr, calls) == \E i \in 1..Len(tr) : tr[i].call \in calls

(* every call of `calls` in tr comes after some call of `first` *)
EachAfter(tr, calls, first) ==
    \A i \in 1..Len(tr) :
        tr[i].call \in calls => \E j \in 1..(i - 1) : tr[j].call \in first

(* every call of `calls` in tr comes before some call of `then` *)
EachBefore(tr, calls, then) ==
    \A i \in 1..Len(tr) :
        tr[i].call \in calls => \E j \in (i + 1)..Len(tr) : tr[j].call \in then

Results(k) == {q \in Kinds : k[q] # None}

----------------------------------------------------------------------------
(* C1: a result that has just been computed is returned from the cache: when *)
(* a get_ request follows the same, successful get_ request of the same      *)
(* calculator with nothing in between, it makes no compute call on the core  *)
(* and returns the value the first one returned.                             *)
C1_SecondRequestCached ==
    [][(/\ last.op \in GetCalls
        /\ last.err = "ok"
        /\ last'.op = last.op
        /\ last'.self = last.self
        /\ last'.arg = None)
       => (/\ ~Made(last'.trace, ComputeCalls)
           /\ last'.ret = last.ret)]_vars

(* C2: when set_atoms is handed a structure that differs from the held one in *)
(* positions, charges, species or tags, all four cached results are unknown  *)
(* afterwards and calculation_required is true for every kind.               *)
C2_ChangedStructureInvalidates ==
    [][(/\ last'.op = "set_atoms"
        /\ last'.arg # None
        /\ calc[last'.self].structure # None
        /\ LET held == calc[last'.self].structure
               new  == last'.arg
           IN  \/ held.pos # new.pos
               \/ held.chg # new.chg
               \/ held.sym # new.sym
               \/ held.tags # new.tags)
       => (/\ calc'[last'.self].structure = last'.arg
           /\ \A q \in Kinds :
                /\ calc'[last'.self][q] = None
                /\ calculation_required(calc'[last'.self], core', {q}))]_vars

C2_Witness ==
    /\ last.op = "set_atoms"
    /\ last.known = {"forces", "stress", "energy"}
    /\ calc[last.self].structure = last.arg
    /\ Results(calc[last.self]) = {}

(* C3: set_potentials with a list and add_potential leave all four cached    *)
(* results unknown; set_potentials(None) changes nothing.                    *)
C3_PotentialsInvalidate ==
    [][/\ (last'.op = "set_potentials" /\ last'.arg # None)
            => Results(calc'[last'.self]) = {}
       /\ last'.op = "add_potential"
            => Results(calc'[last'.self]) = {}
       /\ (last'.op = "set_potentials" /\ last'.arg = None)
            => UNCHANGED <<calc, lists, core, engine>>]_vars

C3_Witness ==
    /\ last.op = "add_potential"
    /\ last.known = Kinds
    /\ Results(calc[last.self]) = {}

(* C4: calculation_required is true exactly when a requested result is       *)
(* unknown or the mirror disagrees with the calculator on atoms, charges,    *)
(* cell, potentials, Coulomb scheme or neighbor lists.                       *)
C4_RequiredIffUnknownOrStale ==
    \A c \in DOMAIN calc :
      \A quantities \in SUBSET Kinds :
        calc[c].structure # None =>
          ( calculation_required(calc[c], core, quantities)
            <=> \/ \E q \in quantities : calc[c][q] = None
                \/ ~atoms_ready(core, calc[c].structure)
                \/ ~charges_ready(core, calc[c].structure)
                \/ ~cell_ready(core, calc[c].structure)
                \/ ~potentials_ready(core, calc[c].potentials)
                \/ (calc[c].coulomb # None
                      /\ ~coulomb_summation_ready(core, calc[c].coulomb))
                \/ ~neighbor_lists_ready(core, calc[c].neighbor_list) )

(* C5: set_core called right after a successful set_core of the same         *)
(* calculator, which is not in forced-initialization mode, pushes nothing.   *)
C5_SecondSetCorePushesNothing ==
    [][(/\ last.op = "set_core"
        /\ last.err = "ok"
        /\ last'.op = "set_core"
        /\ last'.self = last.self
        /\ ~calc[last.self].force_core_initialization)
       => ~Made(last'.trace, PushCalls)]_vars

(* C6: within a request, every compute call on the core comes after a        *)
(* set_core that has returned.                                               *)
C6_ComputeAfterSetCore ==
    EachAfter(last.trace, ComputeCalls, {"set_core.return"})

C6_Witness ==
    /\ last.op \in GetCalls
    /\ Made(last.trace, ComputeCalls)

(* C7: in an energy, forces or stress request the charge relaxation runs     *)
(* after set_core has returned and before the compute call.                  *)
C7_RelaxationBetweenSetCoreAndCompute ==
    (last.op \in {"get_forces", "get_potential_energy", "get_stress"}
       /\ last.err = "ok")
    => /\ EachAfter(last.trace, {"charge_relaxation"}, {"set_core.return"})
       /\ EachBefore(last.trace, {"charge_relaxation"}, ComputeCalls)

(* C8: set_core initializes the core in full exactly when initialization is  *)
(* forced, the workers were never distributed, the mirror holds no atoms, or *)
(* the calculator's atom count differs from the mirror's or the core's.      *)
C8_FullInitIff ==
    [][(last'.op = "set_core" /\ calc[last'.self].structure # None)
       => ( Made(last'.trace, {"create_atoms"})
            <=> LET k == calc[last'.self]
                IN  \/ k.force_core_initialization
                    \/ ~core.mpi_ready
                    \/ core.structure = None
                    \/ Len(k.structure.sym) # Len(core.structure.sym)
                    \/ Len(k.structure.sym) # engine.n_atoms )]_vars

C8_Witness ==
    /\ last.op = "set_core"
    /\ last.err = "ok"
    /\ ~Made(last.trace, {"create_atoms"})
    /\ Made(last.trace, {"update_atom_coordinates"})

(* C9: after a set_core that returned, the mirror agrees with the calculator *)
(* on cell, atoms, charges, potentials, Coulomb scheme (when one is set),    *)
(* potential lists and neighbor lists.                                       *)
C9_SetCoreLeavesMirrorReady ==
    (last.op = "set_core" /\ last.err = "ok")
    => LET k == calc[last.self]
       IN  /\ cell_ready(core, k.structure)
           /\ atoms_ready(core, k.structure)
           /\ charges_ready(core, k.structure)
           /\ potentials_ready(core, k.potentials)
           /\ k.coulomb # None => coulomb_summation_ready(core, k.coulomb)
           /\ core.potential_lists_ready
           /\ neighbor_lists_ready(core, k.neighbor_list)

(* C10: every push of a component is followed, in the same call, by the      *)
(* mirror setter of that component.                                          *)
C10_PushThenRecord ==
    /\ EachBefore(last.trace, {"create_atoms"}, {"core.set_atoms"})
    /\ EachBefore(last.trace, {"create_cell"}, {"core.set_cell"})
    /\ EachBefore(last.trace, {"update_atom_coordinates"}, {"core.set_atomic_positions"})
    /\ EachBefore(last.trace, {"update_atom_charges"}, {"core.set_charges"})
    /\ EachBefore(last.trace, {"allocate_potentials"}, {"core.set_potentials"})
    /\ EachBefore(last.trace, {"set_ewald_parameters"}, {"core.set_coulomb"})
    /\ EachBefore(last.trace, {"generate_neighbor_lists", "create_neighbor_list"},
                  {"core.set_neighbor_lists"})

(* the mirror setters that record what a routine of the core has written *)
SettersOf(routine) ==
    CASE routine = "create_atoms" -> {"core.set_atoms"}
      [] routine = "create_cell" -> {"core.set_cell"}
      [] routine = "update_atom_coordinates" -> {"core.set_atomic_positions"}
      [] routine = "add_potential" -> {"core.set_potentials"}
      [] routine = "generate_neighbor_lists" -> {"core.set_neighbor_lists"}
      [] OTHER -> {}

(* the mirror's atoms snapshot: species, tags and positions *)
AtomsOf(m) ==
    IF m.structure = None THEN None
    ELSE [sym |-> m.structure.sym, tags |-> m.structure.tags, pos |-> m.structure.pos]

ChargesOf(m) == IF m.structure = None THEN None ELSE [chg |-> m.structure.chg]

CellOf(m) == IF m.structure = None THEN None ELSE [cell |-> m.structure.cell]

(* a snapshot changes only in a call that pushed its component *)
C11_ChangeOnlyWithPush ==
    /\ AtomsOf(core') # AtomsOf(core)
         => Made(last'.trace, {"create_atoms", "update_atom_coordinates"})
    /\ ChargesOf(core') # ChargesOf(core)
         => Made(last'.trace, {"create_atoms", "update_atom_charges"})
    /\ CellOf(core') # CellOf(core)
         => Made(last'.trace, {"create_atoms", "create_cell"})
    /\ core'.potentials # core.potentials
         => Made(last'.trace, {"allocate_bond_order_storage"})
    /\ core'.coulomb # core.coulomb
         => Made(last'.trace, {"set_ewald_parameters"})
    /\ (core'.neighbor_list # core.neighbor_list /\ core'.neighbor_list # None)
         => Made(last'.trace, {"generate_neighbor_lists", "create_neighbor_list"})
    /\ core'.mpi_ready # core.mpi_ready
         => Made(last'.trace, {"distribute_mpi"})

(* a routine that raised has recorded nothing *)
C11_NothingRecordedOnFailure ==
    \A i \in 1..Len(last'.trace) :
        last'.trace[i].call = "EngineError"
        => /\ \A j \in (i + 1)..Len(last'.trace) :
                last'.trace[j].call \notin SettersOf(last'.arg.fault)
           /\ last'.arg.fault = "distribute_mpi" => core'.mpi_ready = core.mpi_ready

(* C11: a mirror snapshot or the worker-distribution flag takes a new value  *)
(* only in a call that has pushed that component to the core, and when the   *)
(* push raises nothing is recorded for it.                                   *)
C11_MirrorFollowsPush ==
    [][C11_ChangeOnlyWithPush /\ C11_NothingRecordedOnFailure]_vars

(* C12: with two calculators on the one mirror, every recording of a         *)
(* calculator's neighbor lists comes directly after the core's lists were    *)
(* written from them.                                                        *)
C12_RecordedListsWerePushed ==
    \A i \in 1..Len(last.trace) :
        last.trace[i].call = "core.set_neighbor_lists"
        => /\ i > 1
           /\ last.trace[i - 1].call \in {"generate_neighbor_lists",
                                          "create_neighbor_list"}

----------------------------------------------------------------------------
(* Neighbor search.  A neighbor map is the set of its entries <<i, j, off>>: *)
(* atom j, shifted by off[1], off[2], off[3] lattice vectors, is listed as a *)
(* neighbor of atom i.  Positions are vectors of whole numbers.              *)

(* periodic images further than MaxImage cells away are not looked at; the   *)
(* structures below have none in range beyond that                           *)
MaxImage == 3

Images == (-MaxImage)..MaxImage

Offsets == Images \X Images \X Images

ZeroOffset == <<0, 0, 0>>

Minus(off) == <<-off[1], -off[2], -off[3]>>

Map(entries) == [entries |-> entries]

(* squared distance from atom i to the image of atom j shifted by off *)
distance2(positions, cell, i, j, off) ==
    LET d == [x \in 1..3 |-> positions[j][x] - positions[i][x]
                             + off[1] * cell[1][x] + off[2] * cell[2][x]
                             + off[3] * cell[3][x]]
    IN  dot(d, d)

(* nbl.NeighborList.__init__: self.cutoffs holds every cutoff plus the skin *)
with_skin(cutoffs, skin) == [i \in DOMAIN cutoffs |-> cutoffs[i] + skin]

(* the half of the offsets the ASE list searches: the first component that   *)
(* is not zero is positive                                                   *)
upper(off) ==
    \/ off[1] > 0
    \/ off[1] = 0 /\ off[2] > 0
    \/ off[1] = 0 /\ off[2] = 0 /\ off[3] > 0

(* nbl.NeighborList.build: two atoms are neighbors when their distance is    *)
(* below the sum of their cutoffs (each with the skin); every pair is found  *)
(* once, and bothways stores it from the other atom as well                  *)
ASE_build(positions, cell, cutoffs, skin, self_interaction, bothways) ==
    LET cuts == with_skin(cutoffs, skin)
        n    == Len(positions)
        half == {e \in (1..n) \X (1..n) \X Offsets :
                   /\ \/ upper(e[3])
                      \/ e[3] = ZeroOffset /\ e[2] > e[1]
                      \/ e[3] = ZeroOffset /\ e[2] = e[1] /\ self_interaction
                   /\ distance2(positions, cell, e[1], e[2], e[3])
                        < (cuts[e[1]] + cuts[e[2]]) * (cuts[e[1]] + cuts[e[2]])}
    IN  IF bothways
        THEN half \cup {<<e[2], e[1], Minus(e[3])>> : e \in half}
        ELSE half

(* a fallback list that stores every pair from one of its atoms only *)
NeighborList_neighbors_oneway(positions, cell, cutoffs, skin) ==
    ASE_build(positions, cell, cutoffs, skin, FALSE, FALSE)

(* the fallback list as create_neighbor_lists constructs it:                 *)
(* sorted=False, self_interaction=False, bothways=True                       *)
NeighborList_neighbors(positions, cell, cutoffs, skin) ==
    ASE_build(positions, cell, cutoffs, skin, FALSE, TRUE)

(* generate_neighbor_lists of the core: atom i looks for neighbors closer    *)
(* than its own cutoff; a pair found from either atom is stored for both,    *)
(* and an atom is never its own neighbor at zero offset                      *)
generate_neighbor_lists(positions, cell, cuts) ==
    LET n == Len(positions)
        sees(i, j, off) == distance2(positions, cell, i, j, off) < cuts[i] * cuts[i]
    IN  {e \in (1..n) \X (1..n) \X Offsets :
           /\ ~(e[1] = e[2] /\ e[3] = ZeroOffset)
           /\ \/ sees(e[1], e[2], e[3])
              \/ sees(e[2], e[1], Minus(e[3]))}

(* FastNeighborList.build: the core searches with self.cutoffs (the skin is  *)
(* in them), and the lists are read back atom by atom                        *)
FastNeighborList_neighbors(positions, cell, cutoffs, skin) ==
    generate_neighbor_lists(positions, cell, with_skin(cutoffs, skin))

(* the test of create_neighbor_lists: no axis thinner than the largest cutoff *)
thick_enough(cell, cutoffs) ==
    \A i \in 0..2 : ~thickness_below(cell, i, MaxOf(cutoffs))

(* two atoms along the first axis, 1, 3, 5 or 7 Angstrom apart *)
SearchPositions == {<< <<0, 0, 0>>, <<x, 0, 0>> >> : x \in {2, 6, 10, 14}}

SearchCells == {ThickCell, ShearedCell, ThinCell}

(* cutoffs of 1 and 3 Angstrom, the same or different for the two atoms *)
SearchCutoffs == {<<a, b>> : a \in {2, 6}, b \in {2, 6}}

InitSearch ==
    /\ calc = <<>>
    /\ lists = <<>>
    /\ core = NewCoreMirror
    /\ engine = [n_atoms |-> 0]
    /\ \E positions \in SearchPositions, cell \in SearchCells,
          cutoffs \in SearchCutoffs :
         last = [op |-> "create_neighbor_lists", positions |-> positions,
                 cell |-> cell, cutoffs |-> cutoffs, skin |-> neighbor_marginal,
                 fast |-> None, brute |-> None]

BuildFast ==
    /\ last.fast = None
    /\ last' = [last EXCEPT !.op = "FastNeighborList.build",
                  !.fast = Map(FastNeighborList_neighbors(
                               last.positions, last.cell, last.cutoffs, last.skin))]
    /\ UNCHANGED <<calc, lists, core, engine>>

BuildBrute ==
    /\ last.brute = None
    /\ last' = [last EXCEPT !.op = "NeighborList.build",
                  !.brute = Map(NeighborList_neighbors(
                                last.positions, last.cell, last.cutoffs, last.skin))]
    /\ UNCHANGED <<calc, lists, core, engine>>

NextSearch ==
    \/ BuildFast
    \/ BuildBrute

SpecSearch == InitSearch /\ [][NextSearch]_vars

(* C13: in a cell that is thick enough along all three axes, the map of the  *)
(* grid-partitioning list and the map of the brute-force list, built from    *)
(* the same cutoffs and skin, hold exactly the same entries                  *)
C13_GridAgreesWithBruteForce ==
    (/\ last.fast # None
     /\ last.brute # None
     /\ thick_enough(last.cell, last.cutoffs))
    => last.fast.entries = last.brute.entries

Bidirectional(entries) ==
    \A e \in entries : <<e[2], e[1], Minus(e[3])>> \in entries

NoSelfPair(entries) ==
    \A e \in entries : ~(e[1] = e[2] /\ e[3] = ZeroOffset)

----------------------------------------------------------------------------
(* Cells: one calculator in the default mode whose cell, potentials and      *)
(* Coulomb scheme change between set_core calls                              *)

(* one atom in the cube, in the slab and in the sheared cell *)
CellStructures ==
    {Atoms(<<"A">>, <<0>>, 0, 0, cell) : cell \in {ThickCell, ThinCell, ShearedCell}}

InitCells ==
    /\ calc = [c \in {1} |->
                 Constructed(c, Atoms(<<"A">>, <<0>>, 0, 0, ThickCell), Ref("L2"))]
    /\ lists = SharedLists
    /\ core = NewCoreMirror
    /\ engine = [n_atoms |-> 0]
    /\ last = [op |-> "__init__", self |-> 1, arg |-> None, ret |-> None,
               trace |-> <<>>, err |-> "ok", known |-> {}]

NextCells ==
    \/ \E c \in Calcs : Live(c) /\ SetAtoms(c, CellStructures)
    \/ \E c \in Calcs : Live(c) /\ SetPotentials(c, {Ref("L1"), Ref("L2")})
    \/ \E c \in Calcs : Live(c) /\ SetCoulombSummation(c, {None, Ref("c2")})
    \/ \E c \in Calcs : Live(c) /\ SetCore(c)

SpecCells == InitCells /\ [][NextCells]_vars

(* the volume of the cell and the squared area of the face spanned by the    *)
(* two lattice vectors other than vector i: the thickness along axis i is    *)
(* the volume divided by the area of that face                               *)
Volume(cell) == Abs(dot(cell[1], cross(cell[2], cell[3])))

FaceArea2(cell, i) ==
    LET face == cross(cell[(i % 3) + 1], cell[((i + 1) % 3) + 1])
    IN  dot(face, face)

(* every thickness of the cell is at least the largest of the cutoffs *)
ThickForAll(cell, cutoffs) ==
    \A i \in 1..3 :
        \A j \in 1..Len(cutoffs) :
            Volume(cell) * Volume(cell) >= cutoffs[j] * cutoffs[j] * FaceArea2(cell, i)

Created(tr) == Made(tr, {"create_neighbor_lists"})

(* C15: the list create_neighbor_lists makes is the grid-partitioning list   *)
(* when every thickness of the cell is at least the largest per-atom cutoff, *)
(* and the brute-force list when the cell is thinner than it along some axis *)
C15_ThinCellSelectsBruteForce ==
    (last.op = "set_core" /\ Created(last.trace)) =>
        LET k == calc[last.self]
        IN  k.neighbor_list.fast
              <=> ThickForAll(k.structure.cell, k.neighbor_list.cutoffs.items)

(* a list was made for the sheared cell, thinner than the Coulomb cutoff     *)
(* along its third vector although that vector is longer than the cutoff     *)
C15_Witness ==
    /\ last.op = "set_core"
    /\ Created(last.trace)
    /\ calc[last.self].structure.cell = ShearedCell
    /\ calc[last.self].coulomb # None
    /\ ~calc[last.self].neighbor_list.fast

(* C16: after a synchronisation the list in use is the one the thickness     *)
(* check selects for the cell and the cutoffs the search is made with        *)
C16_StrategyFollowsCell ==
    (last.op = "set_core" /\ last.err = "ok") =>
        LET k == calc[last.self]
        IN  k.neighbor_list # None =>
              (k.neighbor_list.fast
                 <=> ThickForAll(k.structure.cell, k.neighbor_list.cutoffs.items))


----------------------------------------------------------------------------
(* Cutoffs: one calculator in the default mode, with or without a structure, *)
(* potentials and a Coulomb scheme, asked for its per-atom cutoffs           *)

(* the multipliers get_individual_cutoffs is called with *)
Scalers == {1, 2, 3}

(* L1 holds the two pair potentials, L2 the potential with a coordinator *)
CutoffLists ==
    [id \in ListIds |-> IF id = "L1" THEN <<"p1", "p2">>
                        ELSE IF id = "L2" THEN <<"p3">> ELSE <<>>]

GetIndividualCutoffs(c, given) ==
    \E scaler \in given :
        /\ UNCHANGED <<calc, lists, core, engine>>
        /\ last' = [op |-> "get_individual_cutoffs", self |-> c,
                    arg |-> [scaler |-> scaler],
                    ret |-> get_individual_cutoffs(calc[c], lists, scaler),
                    trace |-> <<>>, err |-> "ok",
                    known |-> {q \in Kinds : calc[c][q] # None}]

InitCutoffs ==
    /\ calc = [c \in {1} |-> NewPysic(FALSE)]
    /\ lists = CutoffLists
    /\ core = NewCoreMirror
    /\ engine = [n_atoms |-> 0]
    /\ last = [op |-> "__init__", self |-> 1, arg |-> None, ret |-> None,
               trace |-> <<>>, err |-> "ok", known |-> {}]

NextCutoffs ==
    \/ \E c \in Calcs : Live(c) /\ SetAtoms(c, Structures)
    \/ \E c \in Calcs : Live(c)
          /\ SetPotentials(c, {Ref("L0"), Ref("L1"), Ref("L2")})
    \/ \E c \in Calcs : Live(c) /\ SetCoulombSummation(c, {None, Ref("c1")})
    \/ \E c \in Calcs : Live(c) /\ GetIndividualCutoffs(c, Scalers)

SpecCutoffs == InitCutoffs /\ [][NextCutoffs]_vars

(* the calculator and the multiplier of a recorded get_individual_cutoffs *)
Asked == last.op = "get_individual_cutoffs"

(* the model matches the atom by species, tag or index *)
Matches(pot, atoms, i) ==
    \/ \E n \in 1..Len(pot.symbols), x \in 1..2 : pot.symbols[n][x] = atoms.sym[i]
    \/ \E n \in 1..Len(pot.tags), x \in 1..2 : pot.tags[n][x] = atoms.tags[i]
    \/ \E n \in 1..Len(pot.indices), x \in 1..2 : pot.indices[n][x] = i - 1

(* the ranges atom i takes part in: the Coulomb cutoff, the cutoffs of the   *)
(* models that match it, and the cutoffs of the bond-order parameters of its *)
(* species in the coordinators of those models                               *)
Ranges(k, heap, i) ==
    LET pots == IF k.potentials = None THEN <<>> ELSE heap[k.potentials.ref]
        matching == {m \in 1..Len(pots) : Matches(Potential(pots[m]), k.structure, i)}
    IN  {0}
        \cup (IF k.coulomb = None THEN {}
              ELSE {CoulombSummation(k.coulomb.ref).real_cutoff})
        \cup {Potential(pots[m]).cutoff : m \in matching}
        \cup UNION {
               LET bonds == Potential(pots[m]).coordinator.bonds
               IN  {bonds[n].cutoff :
                      n \in {b \in 1..Len(bonds) :
                               \E t \in 1..Len(bonds[b].symbols), x \in 1..2 :
                                   bonds[b].symbols[t][x] = k.structure.sym[i]}}
               : m \in {a \in matching : Potential(pots[a]).coordinator # None} }

Largest(S) == CHOOSE x \in S : \A y \in S : y <= x

(* C17: the cutoff of every atom is the multiplier times the largest of the  *)
(* Coulomb cutoff, the cutoffs of the models that match the atom and the     *)
(* cutoffs of the bond-order parameters of its species nested in those       *)
(* models; a model that does not match the atom adds nothing                 *)
C17_CutoffIsLargestMatchingRange ==
    Asked /\ calc[last.self].structure # None =>
        LET k == calc[last.self]
        IN  \A i \in 1..number_of_atoms(k.structure) :
                last.ret.items[i] = last.arg.scaler * Largest(Ranges(k, lists, i))

(* C18: the cutoffs for a multiplier are the cutoffs for the multiplier 1,   *)
(* each times the multiplier, whatever potentials and Coulomb scheme are set *)
C18_CutoffsScale ==
    Asked /\ calc[last.self].structure # None =>
        LET k    == calc[last.self]
            unit == get_individual_cutoffs(k, lists, 1)
        IN  \A i \in 1..number_of_atoms(k.structure) :
                last.ret.items[i] = last.arg.scaler * unit.items[i]

(* C19: without a structure there are no cutoffs; with a structure, with no  *)
(* potentials or an empty list of them, and with no Coulomb scheme, there is *)
(* a zero for every atom                                                     *)
C19_NoneOrZeros ==
    Asked =>
        LET k == calc[last.self]
        IN  /\ k.structure = None => last.ret = None
            /\ (/\ k.structure # None
                /\ k.coulomb = None
                /\ (k.potentials = None \/ lists[k.potentials.ref] = <<>>))
               => last.ret = List([i \in 1..number_of_atoms(k.structure) |-> 0])

(* the cutoffs of two atoms were asked for with the multiplier 2 while the   *)
(* list of potentials was empty and no Coulomb scheme was set                *)
C19_Witness ==
    /\ Asked
    /\ last.arg.scaler = 2
    /\ calc[last.self].structure # None
    /\ number_of_atoms(calc[last.self].structure) = 2
    /\ calc[last.self].coulomb = None
    /\ calc[last.self].potentials = Ref("L0")
    /\ last.ret = List(<<0, 0>>)


----------------------------------------------------------------------------
(* the add_potential calls of a trace *)
AddCalls(tr) == {j \in 1..Len(tr) : tr[j].call = "add_potential"}

(* the orders a pair of labels can be written in *)
DistinctOrders(t) == IF t[1] = t[2] THEN 1 ELSE 2

(* the potentials the engine is to hold for a model: one for every order of  *)
(* every target tuple                                                        *)
Registered(pot) ==
    LET targets == pot.symbols \o pot.tags \o pot.indices
        Sum[n \in 0..Len(targets)] ==
            IF n = 0 THEN 0 ELSE Sum[n - 1] + DistinctOrders(targets[n])
    IN  Sum[Len(targets)]

(* C20: a push of the potentials calls add_potential once for every distinct *)
(* order of every target tuple of every model, twice for (A,B) and once for  *)
(* (A,A), and allocate_potentials is given the number of those calls         *)
C20_OnePotentialPerPermutation ==
    \A i \in 1..Len(last.trace) :
        last.trace[i].call = "allocate_potentials" =>
            LET k    == calc[last.self]
                pots == IF k.potentials = None THEN <<>> ELSE lists[k.potentials.ref]
            IN  /\ last.trace[i].arg = Cardinality(AddCalls(last.trace))
                /\ \A m \in 1..Len(pots) :
                       Cardinality({j \in AddCalls(last.trace) : last.trace[j].arg = m - 1})
                         = Registered(Potential(pots[m]))

(* the potentials on (A,A) and on (A,B) were pushed together: three calls *)
C20_Witness ==
    /\ calc[last.self].potentials # None
    /\ lists[calc[last.self].potentials.ref] = <<"p1", "p2">>
    /\ \E i \in 1..Len(last.trace) :
           last.trace[i].call = "allocate_potentials" /\ last.trace[i].arg = 3
    /\ Cardinality(AddCalls(last.trace)) = 3


----------------------------------------------------------------------------
(* a request for the forces or for the stress of the held structure *)
TandemCalls == {"get_forces", "get_stress"}

(* C21: forces and stress are evaluated together: after a successful request *)
(* for either both are known, and a request for the other that follows with  *)
(* nothing in between makes no compute call on the core                      *)
C21_ForcesAndStressInTandem ==
    [][(/\ last.op \in TandemCalls
        /\ last.err = "ok"
        /\ last'.op \in TandemCalls
        /\ last'.op # last.op
        /\ last'.self = last.self
        /\ last'.arg = None)
       => (/\ calc[last.self].forces # None
           /\ calc[last.self].stress # None
           /\ ~Made(last'.trace, ComputeCalls))]_vars


----------------------------------------------------------------------------
(* Copies: the caller keeps the Atoms objects it hands to set_atoms and      *)
(* changes them afterwards.  The objects are on the heap next to the lists   *)
(* of potentials, and the heap tells which object self.structure is.         *)

(* the caller's Atoms object *)
CallerAtoms == {"a1"}

(* the object the calculator made for itself *)
OwnAtoms(c) == IF c = 1 THEN "copy1" ELSE "copy2"

(* an assignment of the caller's object itself *)
atoms_itself(id, c) == id

(* atoms.copy(): a new object, which only the calculator holds *)
atoms_copy(id, c) == OwnAtoms(c)

(* set_atoms(atoms) for the caller's object id; self.structure is assigned   *)
(* exactly when the held structure changes                                   *)
set_atoms_object(w, id) ==
    LET w1     == set_atoms(w, w.lists[id])
        stored == Me(w1).structure # Me(w).structure
    IN  IF stored
        THEN [w1 EXCEPT !.lists["self.structure"][w.self] = atoms_copy(id, w.self)]
        ELSE w1

SetAtomsObject(c, given) ==
    \E id \in given :
        Commit(set_atoms_object(Start(c), id), "set_atoms", lists[id], None)

(* the caller changes one of its objects (positions, charges, species, tags *)
(* or atoms); the object may be the one a calculator holds                  *)
MutateCallerAtoms(given) ==
    \E id \in given :
        \E atoms \in ChangedStructures \ {lists[id]} :
            /\ lists' = [lists EXCEPT ![id] = atoms]
            /\ calc' = [c \in DOMAIN calc |->
                          IF lists["self.structure"][c] = id
                          THEN [calc[c] EXCEPT !.structure = atoms]
                          ELSE calc[c]]
            /\ UNCHANGED <<core, engine>>
            /\ last' = [op |-> "atoms.change", self |-> 1,
                        arg |-> [object |-> id, before |-> lists[id]], ret |-> None,
                        trace |-> <<>>, err |-> "ok", known |-> {}]

InitCopies ==
    /\ calc = [c \in {1} |->
                 Constructed(c, Atoms(<<"A">>, <<0>>, 0, 0, ThickCell), Ref("L1"))]
    /\ lists = [id \in ListIds \cup CallerAtoms \cup {"self.structure"} |->
                  IF id \in ListIds THEN SharedLists[id]
                  ELSE IF id = "self.structure" THEN [c \in {1} |-> OwnAtoms(c)]
                  ELSE Atoms(<<"A">>, <<0>>, 2, 0, ThickCell)]
    /\ core = NewCoreMirror
    /\ engine = [n_atoms |-> 0]
    /\ last = [op |-> "__init__", self |-> 1, arg |-> None, ret |-> None,
               trace |-> <<>>, err |-> "ok", known |-> {}]

NextCopies ==
    \/ \E c \in Calcs : Live(c) /\ SetAtoms(c, {None})
    \/ \E c \in Calcs : Live(c) /\ SetAtomsObject(c, CallerAtoms)
    \/ \E c \in Calcs : Live(c) /\ GetPotentialEnergy(c, {None})
    \/ MutateCallerAtoms(CallerAtoms)

SpecCopies == InitCopies /\ [][NextCopies]_vars

(* C22: set_atoms(None) changes nothing; set_atoms with a structure equal to *)
(* the held one changes neither the held structure nor a cached result; and  *)
(* what the calculator holds is a copy: when the caller changes its object   *)
(* afterwards, the held structure stays as it was                            *)
C22_SetAtomsKeepsACopy ==
    [][/\ (last'.op = "set_atoms" /\ last'.arg = None)
            => calc' = calc /\ core' = core
       /\ (last'.op = "set_atoms" /\ last'.arg = calc[last'.self].structure)
            => calc' = calc
       /\ (last'.op = "set_atoms" /\ last'.arg # None
             /\ last'.arg # calc[last'.self].structure)
            => calc'[last'.self].structure = last'.arg
       /\ last'.op = "atoms.change"
            => \A c \in DOMAIN calc : calc'[c].structure = calc[c].structure]_vars

(* the caller has moved the atom of an object whose structure the calculator *)
(* was given and holds, with the energy of that structure in the cache       *)
C22_Witness ==
    /\ last.op = "atoms.change"
    /\ calc[1].structure = last.arg.before
    /\ lists[last.arg.object] # last.arg.before
    /\ last.arg.before.pos = 2
    /\ calc[1].energy # None


----------------------------------------------------------------------------
(* Modes: one calculator, constructed in either mode, whose initialization   *)
(* mode is read and set between set_core calls                               *)

core_initialization_is_forced(k) == k.force_core_initialization

(* calc.force_core_initialization(new_mode): __init__ has assigned the flag  *)
(* to the attribute of this name, which hides the method of the class; the   *)
(* call is a call of a boolean                                               *)
force_core_initialization(w, new_mode) == Raise(w, "TypeError")

CoreInitializationIsForced(c) ==
    Commit(Start(c), "core_initialization_is_forced", None,
           [value |-> core_initialization_is_forced(calc[c])])

ForceCoreInitialization(c, given) ==
    \E new_mode \in given :
        Commit(force_core_initialization(Start(c), new_mode),
               "force_core_initialization", [new_mode |-> new_mode], None)

NextModes ==
    \/ \E c \in Calcs : Live(c) /\ SetAtoms(c, MovedStructures)
    \/ \E c \in Calcs : Live(c) /\ SetPotentials(c, {Ref("L1")})
    \/ \E c \in Calcs : Live(c) /\ CoreInitializationIsForced(c)
    \/ \E c \in Calcs : Live(c) /\ ForceCoreInitialization(c, BOOLEAN)
    \/ \E c \in Calcs : Live(c) /\ SetCore(c)

SpecModes == Init /\ [][NextModes]_vars

(* C23: after force_core_initialization(new_mode) the calculator reports     *)
(* new_mode as its mode, and the set_core that follows initializes the core  *)
(* in full when new_mode is true and, when it is false, only for a core that *)
(* was never initialized or holds another number of atoms                    *)
C23_ModeIsSet ==
    [][/\ last'.op = "force_core_initialization"
            => /\ last'.err = "ok"
               /\ core_initialization_is_forced(calc'[last'.self])
                    = last'.arg.new_mode
       /\ (/\ last.op = "force_core_initialization"
           /\ last'.op = "set_core"
           /\ last'.self = last.self
           /\ calc[last.self].structure # None)
            => ( Made(last'.trace, {"create_atoms"})
                 <=> \/ last.arg.new_mode
                     \/ ~core.mpi_ready
                     \/ core.structure = None
                     \/ Len(calc[last.self].structure.sym) # Len(core.structure.sym)
                     \/ Len(calc[last.self].structure.sym) # engine.n_atoms )]_vars


----------------------------------------------------------------------------
(* Direct calls: two calculators of one and of two atoms share the core, and *)
(* the caller also calls update_core_coordinates and the build of the        *)
(* neighbor list itself                                                      *)

InitDirect ==
    /\ calc = [c \in Calcs |->
                 Constructed(c, IF c = 1 THEN Atoms(<<"A">>, <<0>>, 0, 0, ThickCell)
                                ELSE Atoms(<<"A", "B">>, <<0, 0>>, 0, 0, ThickCell),
                             Ref("L2"))]
    /\ lists = SharedLists
    /\ core = NewCoreMirror
    /\ engine = [n_atoms |-> 0]
    /\ last = [op |-> "__init__", self |-> 1, arg |-> None, ret |-> None,
               trace |-> <<>>, err |-> "ok", known |-> {}]

UpdateCoreCoordinates(c) ==
    /\ calc[c].structure # None
    /\ Commit(update_core_coordinates(Start(c)), "update_core_coordinates", None, None)

(* calc.neighbor_list.build(atoms), for a calculator that has the fast list *)
BuildFastNeighborList(c, given) ==
    /\ calc[c].neighbor_list # None
    /\ calc[c].neighbor_list.fast
    /\ \E atoms \in given :
           Commit(FastNeighborList_build(Start(c), atoms), "FastNeighborList.build",
                  atoms, None)

NextDirect ==
    \/ \E c \in Calcs : Live(c) /\ SetAtoms(c, MovedStructures)
    \/ \E c \in Calcs : Live(c) /\ GetPotentialEnergy(c, {None})
    \/ \E c \in Calcs : Live(c) /\ UpdateCoreCoordinates(c)
    \/ \E c \in Calcs : Live(c) /\ BuildFastNeighborList(c, MovedStructures)

SpecDirect == InitDirect /\ [][NextDirect]_vars

(* C24: a build of the fast list for a structure other than the one the      *)
(* mirror records fails with StructureMismatchError; the neighbor search of  *)
(* the core is not called, and the mirror, the core and the list stay as     *)
(* they were                                                                 *)
C24_BuildRejectsOtherStructure ==
    [][(/\ last'.op = "FastNeighborList.build"
        /\ core.structure # None
        /\ core.structure # last'.arg)
       => (/\ last'.err = "StructureMismatchError"
           /\ ~Made(last'.trace, {"generate_neighbor_lists"})
           /\ core' = core
           /\ engine' = engine
           /\ calc' = calc)]_vars

(* C25: update_core_coordinates of a calculator whose number of atoms is not *)
(* the core's raises LockedCoreError before anything is pushed: the mirror,  *)
(* the core and the cached results stay as they were                         *)
C25_LockedCoreBeforePush ==
    [][(/\ last'.op = "update_core_coordinates"
        /\ number_of_atoms(calc[last'.self].structure) # engine.n_atoms)
       => (/\ last'.err = "LockedCoreError"
           /\ last'.trace = <<>>
           /\ core' = core
           /\ engine' = engine
           /\ \A q \in Kinds : calc'[last'.self][q] = calc[last'.self][q])]_vars

(* the call was refused for a calculator that holds a computed energy, after *)
(* the other calculator had put its two atoms in the core                    *)
C25_Witness ==
    /\ last.op = "update_core_coordinates"
    /\ last.err = "LockedCoreError"
    /\ calc[last.self].energy # None
    /\ engine.n_atoms = 2
    /\ number_of_atoms(calc[last.self].structure) = 1


----------------------------------------------------------------------------
(* the place of a call of the core in a full initialization: atoms, cell,    *)
(* potentials and bond-order factors, neighbor lists, distribution of the    *)
(* atoms over the workers, Coulomb summation; 0 for any other entry          *)
Stage(call) ==
    CASE call = "create_atoms" -> 1
      [] call = "create_cell" -> 2
      [] call \in {"allocate_potentials", "add_potential",
                   "allocate_bond_order_factors", "add_bond_order_factor",
                   "allocate_bond_order_storage"} -> 3
      [] call \in {"generate_neighbor_lists", "create_neighbor_list"} -> 4
      [] call = "distribute_mpi" -> 5
      [] call = "set_ewald_parameters" -> 6
      [] OTHER -> 0

(* C26: a full initialization calls the core in the order atoms, cell,       *)
(* potentials and bond-order tables, neighbor lists, worker distribution,    *)
(* Coulomb summation                                                         *)
C26_FullInitOrder ==
    (last.op = "set_core" /\ Made(last.trace, {"create_atoms"})) =>
        \A i, j \in 1..Len(last.trace) :
            (/\ i < j
             /\ Stage(last.trace[i].call) > 0
             /\ Stage(last.trace[j].call) > 0)
            => Stage(last.trace[i].call) <= Stage(last.trace[j].call)


----------------------------------------------------------------------------
(* the place of a call of the core on the incremental path: cell, atoms,     *)
(* charges, potentials, Coulomb summation, potential lists, neighbor lists;  *)
(* 0 for any other entry                                                     *)
Step(call) ==
    CASE call = "create_cell" -> 1
      [] call = "update_atom_coordinates" -> 2
      [] call = "update_atom_charges" -> 3
      [] call \in {"allocate_potentials", "add_potential",
                   "allocate_bond_order_factors", "add_bond_order_factor",
                   "allocate_bond_order_storage"} -> 4
      [] call = "set_ewald_parameters" -> 5
      [] call \in {"create_potential_list", "create_bond_order_factor_list"} -> 6
      [] call \in {"generate_neighbor_lists", "create_neighbor_list"} -> 7
      [] OTHER -> 0

Incremental(tr) == Made(tr, {"set_core"}) /\ ~Made(tr, {"create_atoms"})

(* C27: on the incremental path the components are checked and pushed in the *)
(* order cell, atoms, charges, potentials, Coulomb summation, potential      *)
(* lists, neighbor lists: no push of a later one comes before the check, and *)
(* so before the push, of an earlier one                                     *)
C27_IncrementalOrder ==
    (last.op = "set_core" /\ Incremental(last.trace)) =>
        \A i, j \in 1..Len(last.trace) :
            (/\ i < j
             /\ Step(last.trace[i].call) > 0
             /\ Step(last.trace[j].call) > 0)
            => Step(last.trace[i].call) <= Step(last.trace[j].call)


----------------------------------------------------------------------------
(* Slab: one calculator in the default mode whose atom moves, by less or by  *)
(* more than the skin, in the cube (fast list) and in the slab (ASE list)    *)

SlabStructures ==
    {Atoms(<<"A">>, <<0>>, pos, 0, cell) :
        pos \in {0, 1, 3}, cell \in {ThickCell, ThinCell}}

InitSlab ==
    /\ calc = [c \in {1} |->
                 Constructed(c, Atoms(<<"A">>, <<0>>, 0, 0, ThinCell), Ref("L2"))]
    /\ lists = SharedLists
    /\ core = NewCoreMirror
    /\ engine = [n_atoms |-> 0]
    /\ last = [op |-> "__init__", self |-> 1, arg |-> None, ret |-> None,
               trace |-> <<>>, err |-> "ok", known |-> {}]

NextSlab ==
    \/ \E c \in Calcs : Live(c) /\ SetAtoms(c, SlabStructures)
    \/ \E c \in Calcs : Live(c) /\ SetCore(c)

SpecSlab == InitSlab /\ [][NextSlab]_vars

PotentialCalls ==
    {"allocate_potentials", "add_potential", "allocate_bond_order_factors",
     "add_bond_order_factor", "allocate_bond_order_storage"}

NeighborCalls == {"generate_neighbor_lists", "create_neighbor_list"}

(* the list was built for positions the atom has since left by more than the *)
(* skin, or was not built at all                                             *)
Outrun(k) ==
    \/ k.neighbor_list = None
    \/ ~k.neighbor_list.built
    \/ Abs(k.neighbor_list.positions[1] - k.structure.pos) > k.neighbor_list.skin

(* C28: on the incremental path a component is pushed only when it is stale: *)
(* when its readiness predicate is false before the synchronization or an    *)
(* earlier push of the same synchronization has made it false; neighbor      *)
(* lists are sent only when they are stale, newly made, or outrun by the     *)
(* atoms                                                                     *)
C28_OnlyStalePushed ==
    [][(last'.op = "set_core" /\ Incremental(last'.trace)) =>
         LET k  == calc[last'.self]
             tr == last'.trace
         IN  /\ Made(tr, {"create_cell"}) => ~cell_ready(core, k.structure)
             /\ Made(tr, {"update_atom_coordinates"}) => ~atoms_ready(core, k.structure)
             /\ Made(tr, {"update_atom_charges"}) => ~charges_ready(core, k.structure)
             /\ Made(tr, PotentialCalls) => ~potentials_ready(core, k.potentials)
             /\ Made(tr, {"set_ewald_parameters"})
                  => ~coulomb_summation_ready(core, k.coulomb)
             /\ Made(tr, {"create_potential_list"})
                  => ~core.potential_lists_ready \/ Made(tr, PotentialCalls)
             /\ Made(tr, NeighborCalls)
                  => \/ ~neighbor_lists_ready(core, k.neighbor_list)
                     \/ Made(tr, {"create_cell", "create_neighbor_lists"})
                     \/ Outrun(k)]_vars


----------------------------------------------------------------------------
(* C29: when coordinates are pushed on the incremental path, the neighbor    *)
(* lists are checked against the new positions in the same synchronization,  *)
(* before any compute call: the update of the lists is recorded after the    *)
(* push with no compute call in between, and the list the calculator holds   *)
(* afterwards is built and not outrun by the atoms                           *)
C29_NeighborCheckFollowsCoordinates ==
    (last.err = "ok" /\ Incremental(last.trace)) =>
        \A i \in 1..Len(last.trace) :
            last.trace[i].call = "update_atom_coordinates" =>
                /\ \E j \in (i + 1)..Len(last.trace) :
                       /\ last.trace[j].call = "core.set_neighbor_lists"
                       /\ \A n \in i..j : last.trace[n].call \notin ComputeCalls
                /\ ~Outrun(calc[last.self])

(* a request that pushed the coordinates of a moved atom, searched the       *)
(* neighbors again and then computed                                         *)
C29_Witness ==
    /\ last.op \in GetCalls
    /\ last.err = "ok"
    /\ Incremental(last.trace)
    /\ Made(last.trace, {"update_atom_coordinates"})
    /\ Made(last.trace, {"generate_neighbor_lists"})
    /\ Made(last.trace, ComputeCalls)


----------------------------------------------------------------------------
(* C30: every push of the cell is followed at once by the mirror forgetting  *)
(* the neighbor lists, and a synchronization that pushed the cell and        *)
(* returned has, after that push, sent neighbor lists to the core and left   *)
(* the mirror recording the calculator's list                                *)
C30_CellPushRenewsNeighborLists ==
    LET tr == last.trace
    IN  \A i \in 1..Len(tr) :
            tr[i].call = "create_cell" =>
                /\ i + 2 <= Len(tr)
                /\ tr[i + 1].call = "core.set_cell"
                /\ tr[i + 2].call = "core.set_neighbor_lists(None)"
                /\ last.err = "ok" =>
                       /\ \E j \in (i + 3)..Len(tr) : tr[j].call \in NeighborCalls
                       /\ neighbor_lists_ready(core, calc[last.self].neighbor_list)


----------------------------------------------------------------------------
(* Expansion: the cutoffs a calculator has saved, compared with new ones *)

(* lists of cutoffs for up to two atoms, in units of 0.5 Angstrom *)
CutoffSequences ==
    {List(<<>>)} \cup {List(<<a>>) : a \in {0, 2, 4}}
                 \cup {List(<<a, b>>) : a, b \in {0, 2, 4}}

SetCutoffs(c, given) ==
    \E cutoffs \in given :
        Commit(SetMe(Start(c), set_cutoffs(calc[c], cutoffs)), "set_cutoffs",
               cutoffs, None)

NeighborListsExpanded(c, given) ==
    \E cutoffs \in given :
        Commit(Start(c), "neighbor_lists_expanded", cutoffs,
               [value |-> neighbor_lists_expanded(calc[c], cutoffs)])

NextExpanded ==
    \/ \E c \in Calcs : Live(c) /\ SetCutoffs(c, CutoffSequences)
    \/ \E c \in Calcs : Live(c)
          /\ NeighborListsExpanded(c, CutoffSequences \cup {None})

SpecExpanded == Init /\ [][NextExpanded]_vars

(* the new cutoffs are given, as many as the saved ones, and none is longer   *)
(* than the saved cutoff of the same atom                                     *)
NoneLonger(saved, new) ==
    /\ saved # None
    /\ new # None
    /\ Len(saved.items) = Len(new.items)
    /\ \A i \in 1..Len(new.items) : new.items[i] <= saved.items[i]

(* C31: neighbor_lists_expanded(new) is true exactly when no cutoffs were     *)
(* saved, or new is None, or the two differ in length, or some new cutoff is  *)
(* strictly longer than the saved one of the same atom; it is false when      *)
(* every new cutoff is at most the saved one of the same atom                 *)
C31_ExpandedExactly ==
    last.op = "neighbor_lists_expanded" =>
        LET saved == calc[last.self].saved_cutoffs
            new   == last.arg
        IN  /\ last.ret.value
                = (\/ saved = None
                   \/ new = None
                   \/ (saved # None /\ new # None
                       /\ Len(saved.items) # Len(new.items))
                   \/ (saved # None /\ new # None
                       /\ \E i \in DOMAIN saved.items \cap DOMAIN new.items :
                              new.items[i] > saved.items[i]))
            /\ NoneLonger(saved, new) => ~last.ret.value

(* two atoms, one cutoff shortened and the other kept: not an expansion *)
C31_Witness ==
    /\ last.op = "neighbor_lists_expanded"
    /\ calc[last.self].saved_cutoffs = List(<<4, 2>>)
    /\ last.arg = List(<<2, 2>>)
    /\ ~last.ret.value


----------------------------------------------------------------------------
(* Ranges: one calculator in the default mode whose structure stays as it is *)
(* while potentials and the Coulomb scheme are installed between requests    *)

InitRanges ==
    /\ calc = [c \in {1} |->
                 Constructed(c, Atoms(<<"A">>, <<0>>, 0, 0, ThickCell), Ref("L1"))]
    /\ lists = SharedLists
    /\ core = NewCoreMirror
    /\ engine = [n_atoms |-> 0]
    /\ last = [op |-> "__init__", self |-> 1, arg |-> None, ret |-> None,
               trace |-> <<>>, err |-> "ok", known |-> {}]

NextRanges ==
    \/ \E c \in Calcs : Live(c) /\ SetPotentials(c, {Ref("L1"), Ref("L2")})
    \/ \E c \in Calcs : Live(c) /\ AddPotential(c, AddedPotentials)
    \/ \E c \in Calcs : Live(c) /\ SetCoulombSummation(c, {None, Ref("c1")})
    \/ \E c \in Calcs : Live(c) /\ GetPotentialEnergy(c, {None})
    \/ \E c \in Calcs : Live(c) /\ GetForces(c, {None})

SpecRanges == InitRanges /\ [][NextRanges]_vars

(* the neighbor lists of calculator k were made with cutoffs no shorter than *)
(* those its present potentials and Coulomb scheme resolve to                *)
Covered(k, heap) ==
    /\ k.neighbor_list # None
    /\ LET cuts == get_individual_cutoffs(k, heap, 1)
       IN  /\ Len(k.neighbor_list.cutoffs.items) = Len(cuts.items)
           /\ \A i \in 1..Len(cuts.items) :
                  k.neighbor_list.cutoffs.items[i] >= cuts.items[i]

(* C32: once set_potentials, add_potential or set_coulomb_summation has      *)
(* installed models that resolve to a longer cutoff than the neighbor lists  *)
(* were made with, the next synchronization makes the lists again with the   *)
(* longer cutoffs before the core computes: whenever a request has computed, *)
(* the lists cover the cutoffs of the models installed                       *)
C32_ListsCoverInstalledModels ==
    (last.op \in GetCalls /\ last.err = "ok" /\ Made(last.trace, ComputeCalls)) =>
        Covered(calc[last.self], lists)


----------------------------------------------------------------------------
(* the calls on the core that a stale cell, stale atoms, stale charges,      *)
(* stale potentials, a stale Coulomb scheme or stale neighbor lists lead to  *)
StalePushes ==
    {"create_cell", "update_atom_coordinates", "update_atom_charges",
     "allocate_potentials", "set_ewald_parameters"} \cup NeighborCalls

(* the routine of the core that computes result q *)
RoutineOf(q) ==
    CASE q = "energy" -> "calculate_energy"
      [] q = "electronegativities" -> "calculate_electronegativities"
      [] OTHER -> "calculate_forces"

(* C33: a synchronization that finds the cell, the atoms, the charges, the   *)
(* potentials, the Coulomb scheme or the neighbor lists stale forgets all    *)
(* four results: after a request that pushed any of them on the incremental  *)
(* path, the calculator holds no result other than those the request itself  *)
(* computed                                                                  *)
C33_StaleFindingForgetsResults ==
    [][(/\ last'.op \in GetCalls
        /\ last'.err = "ok"
        /\ Incremental(last'.trace)
        /\ Made(last'.trace, StalePushes)) =>
           \A q \in Kinds :
               calc'[last'.self][q] # None => Made(last'.trace, {RoutineOf(q)})]_vars


----------------------------------------------------------------------------
(* Scaling: one calculator handed structures of one and of two atoms and     *)
(* Coulomb schemes with and without a scaling vector for one atom            *)

UpdateCoreCoulomb(c) ==
    /\ calc[c].structure # None
    /\ Commit(update_core_coulomb(Start(c)), "update_core_coulomb", None, None)

NextScaling ==
    \/ \E c \in Calcs : Live(c) /\ SetAtoms(c, Structures)
    \/ \E c \in Calcs : Live(c)
          /\ SetCoulombSummation(c, {None} \cup {Ref(id) : id \in Coulombs})
    \/ \E c \in Calcs : Live(c) /\ SetCore(c)
    \/ \E c \in Calcs : Live(c) /\ UpdateCoreCoulomb(c)

SpecScaling == Init /\ [][NextScaling]_vars

(* the scheme of calculator k has a scaling vector that is not as long as    *)
(* the structure has atoms                                                   *)
ScalesMismatch(k) ==
    /\ k.structure # None
    /\ k.coulomb # None
    /\ CoulombSummation(k.coulomb.ref).scales # None
    /\ Len(CoulombSummation(k.coulomb.ref).scales.items) # number_of_atoms(k.structure)

(* C34: with a scaling vector whose length is not the number of atoms,       *)
(* update_core_coulomb raises InvalidParametersError, has not set the        *)
(* Coulomb parameters of the core, and leaves the mirror as it was; when     *)
(* set_core reaches it, the synchronization ends with that error, the        *)
(* parameters not set and the mirror's Coulomb scheme as it was              *)
C34_ScalesCheckedBeforePush ==
    [][/\ (last'.op = "update_core_coulomb" /\ ScalesMismatch(calc[last'.self])) =>
              /\ last'.err = "InvalidParametersError"
              /\ ~Made(last'.trace, {"set_ewald_parameters"})
              /\ core' = core
       /\ (last'.op = "set_core" /\ last'.err = "InvalidParametersError") =>
              /\ ScalesMismatch(calc[last'.self])
              /\ ~Made(last'.trace, {"set_ewald_parameters"})
              /\ core'.coulomb = core.coulomb
       /\ (last'.op = "set_core" /\ ScalesMismatch(calc[last'.self])) =>
              ~Made(last'.trace, {"set_ewald_parameters"})]_vars

(* update_core_coulomb raised at the scaling vector while the mirror held    *)
(* another scheme, pushed earlier                                            *)
C34_Witness ==
    /\ last.op = "update_core_coulomb"
    /\ last.err = "InvalidParametersError"
    /\ ScalesMismatch(calc[last.self])
    /\ core.coulomb # None
    /\ core.coulomb # calc[last.self].coulomb


----------------------------------------------------------------------------
(* C35: no synchronization ends with MissingAtomsError: whatever structure   *)
(* the calculator holds, the atoms are brought into agreement with the core  *)
(* before the potential lists and the neighbor lists are pushed              *)
C35_NoMissingAtomsError ==
    Made(last.trace, {"set_core"}) => last.err # "MissingAtomsError"


----------------------------------------------------------------------------
(* Lists: one calculator in the default mode whose structure, potentials and *)
(* Coulomb scheme change, and whose neighbor lists the caller may make with  *)
(* cutoffs of their own                                                      *)

ListStructures ==
    { Atoms(<<"A">>, <<0>>, 0, 0, ThickCell),
      Atoms(<<"B">>, <<0>>, 0, 0, ThickCell),
      Atoms(<<"A", "B">>, <<0, 0>>, 0, 0, ThickCell) }

CreateNeighborLists(c, given) ==
    \E cutoffs \in given :
        /\ calc[c].structure # None
        /\ Commit(create_neighbor_lists(Start(c), cutoffs, neighbor_marginal),
                  "create_neighbor_lists", cutoffs, None)

NextLists ==
    \/ \E c \in Calcs : Live(c) /\ SetAtoms(c, ListStructures)
    \/ \E c \in Calcs : Live(c) /\ SetPotentials(c, {Ref("L1"), Ref("L2")})
    \/ \E c \in Calcs : Live(c) /\ SetCoulombSummation(c, {None, Ref("c1")})
    \/ \E c \in Calcs : Live(c)
          /\ CreateNeighborLists(c, {None, List(<<8>>)})
    \/ \E c \in Calcs : Live(c) /\ SetCore(c)

SpecLists == InitRanges /\ [][NextLists]_vars

----------------------------------------------------------------------------
(* C37: every push of the potentials leaves the potential lists of the core  *)
(* marked stale, and a synchronization that pushed the potentials builds the *)
(* lists afterwards, before it returns and before the core computes; the     *)
(* core never computes while the lists are marked stale                      *)
C37_PotentialListsFollowPotentials ==
    LET tr == last.trace
    IN  /\ \A i \in 1..Len(tr) :
               tr[i].call = "allocate_potentials" =>
                   IF \E j \in (i + 1)..Len(tr) : tr[j].call = "create_potential_list"
                   THEN \A n \in (i + 1)..Len(tr) :
                            tr[n].call \in ComputeCalls \cup {"set_core.return"} =>
                                \E j \in (i + 1)..(n - 1) :
                                    tr[j].call = "create_potential_list"
                   ELSE /\ last.err # "ok"
                        /\ ~core.potential_lists_ready
        /\ Made(tr, ComputeCalls) => core.potential_lists_ready

(* a request on the incremental path that pushed the potentials, built the   *)
(* potential lists and computed                                              *)
C37_Witness ==
    /\ last.op \in GetCalls
    /\ last.err = "ok"
    /\ Incremental(last.trace)
    /\ Made(last.trace, {"add_potential"})
    /\ Made(last.trace, {"create_potential_list"})
    /\ Made(last.trace, ComputeCalls)


----------------------------------------------------------------------------
(* C38: when add_potential has appended a model to the list the mirror       *)
(* records as pushed, the request that follows pushes the potentials again   *)
(* before the core computes                                                  *)
C38_AddedPotentialIsPushed ==
    [][(/\ last.op = "add_potential"
        /\ last.err = "ok"
        /\ core.potentials # None
        /\ core.potentials = calc[last.self].potentials
        /\ last'.op \in GetCalls
        /\ last'.self = last.self
        /\ last'.err = "ok") =>
           \E i, j \in 1..Len(last'.trace) :
               /\ i < j
               /\ last'.trace[i].call = "add_potential"
               /\ last'.trace[j].call \in ComputeCalls]_vars

============================================================================
